---- MODULE Spec2Model ----
(***************************************************************************)
(* Model of the ScotAccount documentation search subsystem:                *)
(*   - the client-side Query Engine (js/search.js, class                   *)
(*     DocumentationSearch and its DOMContentLoaded bootstrap),            *)
(*   - the build-time Index Builder (src/_data/fullSearchIndex.js).        *)
(* Strings are TLA+ strings; JavaScript string primitives are modelled by  *)
(* the operators of the first section.                                     *)
(***************************************************************************)
EXTENDS Integers, Sequences, FiniteSets, TLC

VARIABLES
    \* ---- browser environment of the Query Engine ----
    hasInput,        \* document contains #search-input
    hasForm,         \* document contains .sg-header__search-form
    hasPage,         \* document contains #search-results-page
    windowFuse,      \* window.Fuse is defined
    domLoaded,       \* DOMContentLoaded has been dispatched
    script,          \* injected CDN <script>: "none" | "pending" | "loaded" | "error"
    \* ---- the DocumentationSearch instance ----
    instance,        \* "none" | "awaitLoad" | "ready" | "failed" (position of init())
    nInstances,      \* number of DocumentationSearch objects constructed
    nFuseBuilt,      \* number of Fuse structures constructed
    searchData,      \* this.searchData
    fuse,            \* this.fuse (NoFuse or the built structure)
    searchInputRef,  \* this.searchInput is non-null
    searchResultsRef,\* this.searchResults is non-null
    bound,           \* set of event listeners registered by bindEvents
    \* ---- DOM state the engine reads and writes ----
    resultsInDoc,    \* element #search-results is in the document
    display,         \* #search-results style.display
    html,            \* #search-results innerHTML (rendered payload)
    pageHtml,        \* #search-results-page innerHTML (rendered payload)
    inputValue,      \* #search-input value
    \* ---- what the last step did ----
    lastOp,          \* the event or call that was dispatched last
    matcherCall,     \* the call of fuse.search in the last step (query, hits returned), or NoCall
    written,         \* containers whose innerHTML the last step assigned
    threw,           \* the last handler let an exception escape to its caller
    rejected,        \* init()'s promise was rejected
    \* ---- getSearchSummary exercised as a pure function ----
    sumContent,      \* result.content
    sumQuery,        \* query
    sumOut,          \* [done, value]: the returned snippet once called
    \* ---- Index Builder ----
    envPrefix,       \* process.env.ELEVENTY_PATH_PREFIX ("" = unset or empty)
    pathPrefix,      \* process.env.ELEVENTY_PATH_PREFIX || "/"
    files,           \* per manifest entry visited: what was found on disk
    cursor,          \* index of the next manifest entry pageFiles.forEach visits
    pages,           \* the pages array being built
    \* ---- the record of one page exercised as a function of its body ----
    srcBody,         \* the markdown body matter() returns as content
    record           \* [done, value]: the object pushed for that body

engineVars == <<hasInput, hasForm, hasPage, windowFuse, domLoaded, script,
                instance, nInstances, nFuseBuilt, searchData, fuse,
                searchInputRef, searchResultsRef, bound, resultsInDoc,
                display, html, pageHtml, inputValue,
                lastOp, matcherCall, written, threw, rejected>>
summaryVars == <<sumContent, sumQuery, sumOut>>
builderVars == <<envPrefix, pathPrefix, files, cursor, pages>>
recordVars == <<srcBody, record>>
vars == <<engineVars, summaryVars, builderVars, recordVars>>

\* this.fuse = null
NoFuse == [built |-> FALSE, docs |-> <<>>, keys |-> <<>>, threshold |-> "",
           minMatchCharLength |-> 0, includeScore |-> FALSE]
NoCall == [called |-> FALSE, query |-> "", hits |-> <<>>]

(***************************************************************************)
(* JavaScript string primitives                                            *)
(***************************************************************************)
Min(a, b) == IF a < b THEN a ELSE b
Max(a, b) == IF a > b THEN a ELSE b

UpperToLower ==
    [c \in {"A","B","C","D","E","F","G","H","I","J","K","L","M",
            "N","O","P","Q","R","S","T","U","V","W","X","Y","Z"} |->
       CASE c = "A" -> "a" [] c = "B" -> "b" [] c = "C" -> "c" [] c = "D" -> "d"
         [] c = "E" -> "e" [] c = "F" -> "f" [] c = "G" -> "g" [] c = "H" -> "h"
         [] c = "I" -> "i" [] c = "J" -> "j" [] c = "K" -> "k" [] c = "L" -> "l"
         [] c = "M" -> "m" [] c = "N" -> "n" [] c = "O" -> "o" [] c = "P" -> "p"
         [] c = "Q" -> "q" [] c = "R" -> "r" [] c = "S" -> "s" [] c = "T" -> "t"
         [] c = "U" -> "u" [] c = "V" -> "v" [] c = "W" -> "w" [] c = "X" -> "x"
         [] c = "Y" -> "y" [] c = "Z" -> "z"]

\* the character at 0-based position i of s
CharAt(s, i) == SubSeq(s, i + 1, i + 1)

LowerChar(c) == IF c \in DOMAIN UpperToLower THEN UpperToLower[c] ELSE c

\* String.prototype.toLowerCase: every character mapped, by halves
RECURSIVE toLowerCase(_)
toLowerCase(s) ==
    IF Len(s) = 0 THEN ""
    ELSE IF Len(s) = 1 THEN LowerChar(s)
    ELSE LET h == Len(s) \div 2
         IN  toLowerCase(SubSeq(s, 1, h)) \o toLowerCase(SubSeq(s, h + 1, Len(s)))

\* String.prototype.substring(a, b): both ends clamped to [0, length], swapped if a > b
substring(s, a, b) ==
    LET ca == Max(0, Min(a, Len(s)))
        cb == Max(0, Min(b, Len(s)))
        lo == Min(ca, cb)
        hi == Max(ca, cb)
    IN  SubSeq(s, lo + 1, hi)

\* String.prototype.indexOf: 0-based position of the first occurrence, -1 if none
indexOf(s, q) ==
    LET occ == {i \in 0..(Len(s) - Len(q)) : SubSeq(s, i + 1, i + Len(q)) = q}
    IN  IF occ = {} THEN -1 ELSE CHOOSE i \in occ : \A j \in occ : i <= j

\* a white-space character (\s)
IsSpace(c) == c \in {" ", "\t", "\n"}

\* String.prototype.trim
RECURSIVE trimStart(_)
trimStart(s) ==
    IF Len(s) > 0 /\ IsSpace(CharAt(s, 0)) THEN trimStart(SubSeq(s, 2, Len(s))) ELSE s
RECURSIVE trimEnd(_)
trimEnd(s) ==
    IF Len(s) > 0 /\ IsSpace(CharAt(s, Len(s) - 1)) THEN trimEnd(SubSeq(s, 1, Len(s) - 1)) ELSE s
trim(s) == trimEnd(trimStart(s))

\* s contains q as a substring
Contains(s, q) == indexOf(s, q) # -1

\* n copies of the character c
RECURSIVE Repeat(_, _)
Repeat(c, n) ==
    IF n <= 0 THEN ""
    ELSE IF n = 1 THEN c
    ELSE Repeat(c, n \div 2) \o Repeat(c, n - (n \div 2))

(***************************************************************************)
(* Query Engine: data and pure rendering functions                         *)
(***************************************************************************)
MinQueryLength == 2
SnippetPad == 40
FallbackLen == 120

\* the pages array that loadSearchData assigns to this.searchData
EnginePages == <<
    [title |-> "Home", url |-> "/",
     content |-> "ScotAccount technical documentation Scottish Government identity authentication system getting started architecture"],
    [title |-> "Getting Started", url |-> "/getting-started/",
     content |-> "Quick start guide 30 minutes setup configuration authentication flow token validation OIDC OpenID Connect"],
    [title |-> "Architecture", url |-> "/architecture/",
     content |-> "System architecture components authentication service token validation identity provider OIDC flow sequence diagrams"],
    [title |-> "Complete Guide", url |-> "/scotaccount-complete-guide/",
     content |-> "Comprehensive implementation guide detailed setup configuration endpoints authentication flow security"],
    [title |-> "Token Validation Module", url |-> "/scotaccount-token-validation-module/",
     content |-> "Token validation security JWT verification authentication middleware implementation"],
    [title |-> "Modular Structure", url |-> "/scotaccount-modular-structure/",
     content |-> "Modular architecture design patterns components separation concerns implementation structure"],
    [title |-> "Integration Examples", url |-> "/integration-examples/",
     content |-> "Integration examples, practical implementation scenarios, documentation improvement recommendations, real-world use cases, step-by-step guides."] >>

\* new window.Fuse(this.searchData, {...})
NewFuse(docs) ==
    [built |-> TRUE, docs |-> docs, keys |-> <<"title", "content">>, threshold |-> "0.4",
     minMatchCharLength |-> 2, includeScore |-> TRUE]

\* toLowerCase of the contents of the index, each evaluated once
LoweredContents ==
    [c \in {EnginePages[i].content : i \in DOMAIN EnginePages} |-> toLowerCase(c)]

\* result.content.toLowerCase()
LowerContent(c) ==
    IF c \in DOMAIN LoweredContents THEN LoweredContents[c] ELSE toLowerCase(c)

\* variant: the snippet is cut from the lowercased copy of the content
getSearchSummary_LowerSnippet(result, query) ==
    LET content == toLowerCase(result.content)
        queryLower == toLowerCase(query)
        index == indexOf(content, queryLower)
        start == Max(0, index - SnippetPad)
        end == Min(Len(content), index + Len(query) + SnippetPad)
        snippet == substring(content, start, end)
        lead == IF start > 0 THEN "..." ELSE ""
        trail == IF end < Len(content) THEN "..." ELSE ""
    IN  IF index = -1 THEN substring(result.content, 0, FallbackLen) \o "..."
        ELSE lead \o snippet \o trail

\* variant: the fallback appends the ellipsis only when it truncated
getSearchSummary_EllipsisIfCut(result, query) ==
    LET content == toLowerCase(result.content)
        queryLower == toLowerCase(query)
        index == indexOf(content, queryLower)
        start == Max(0, index - SnippetPad)
        end == Min(Len(content), index + Len(query) + SnippetPad)
        snippet == substring(result.content, start, end)
        lead == IF start > 0 THEN "..." ELSE ""
        trail == IF end < Len(content) THEN "..." ELSE ""
    IN  IF index = -1
        THEN substring(result.content, 0, FallbackLen)
                 \o (IF Len(content) > FallbackLen THEN "..." ELSE "")
        ELSE lead \o snippet \o trail

\* variant: the fallback is the 200-character summary prefix
getSearchSummary_SummaryFallback(result, query) ==
    LET content == toLowerCase(result.content)
        queryLower == toLowerCase(query)
        index == indexOf(content, queryLower)
        start == Max(0, index - SnippetPad)
        end == Min(Len(content), index + Len(query) + SnippetPad)
        snippet == substring(result.content, start, end)
        lead == IF start > 0 THEN "..." ELSE ""
        trail == IF end < Len(content) THEN "..." ELSE ""
    IN  IF index = -1 THEN substring(result.content, 0, 200) \o "..."
        ELSE lead \o snippet \o trail

\* getSearchSummary(result, query)
getSearchSummary(result, query) ==
    LET content == LowerContent(result.content)
        queryLower == toLowerCase(query)
        index == indexOf(content, queryLower)
        start == Max(0, index - SnippetPad)
        end == Min(Len(content), index + Len(query) + SnippetPad)
        snippet == substring(result.content, start, end)
        lead == IF start > 0 THEN "..." ELSE ""
        trail == IF end < Len(content) THEN "..." ELSE ""
    IN  IF index = -1 THEN substring(result.content, 0, FallbackLen) \o "..."
        ELSE lead \o snippet \o trail

Suggestion == "Try searching for: authentication, token, OIDC, setup, or architecture"
Blank == [kind |-> "blank", message |-> "", suggestion |-> "", count |-> "", items |-> <<>>]

\* the text the template literal of the count header produces
CountHeader(n, query) ==
    ToString(n) \o " result$" \o (IF n # 1 THEN "s" ELSE "") \o " for \"" \o query \o "\""

\* one .search-results__item: link target, title text, summary text
RenderItem(result, query) ==
    [href |-> result.url, title |-> result.title,
     summary |-> getSearchSummary(result, query)]

\* variant: no branch for an empty result list
RenderDropdown_NoEmpty(results, query) ==
    [kind |-> "list", message |-> "", suggestion |-> "",
     count |-> CountHeader(Len(results), query),
     items |-> [i \in 1..Len(results) |-> RenderItem(results[i], query)]]

\* the markup displayResults assigns to this.searchResults.innerHTML
RenderDropdown(results, query) ==
    IF Len(results) = 0
    THEN [kind |-> "empty",
          message |-> "No results found for \"" \o query \o "\"",
          suggestion |-> Suggestion, count |-> "", items |-> <<>>]
    ELSE [kind |-> "list", message |-> "", suggestion |-> "",
          count |-> CountHeader(Len(results), query),
          items |-> [i \in 1..Len(results) |-> RenderItem(results[i], query)]]

\* variant: the results page lists the items without the count header
RenderPage_NoCount(results, query) ==
    IF Len(results) = 0
    THEN [kind |-> "empty",
          message |-> "No results found for \"" \o query \o "\"",
          suggestion |-> Suggestion, count |-> "", items |-> <<>>]
    ELSE [kind |-> "list", message |-> "", suggestion |-> "", count |-> "",
          items |-> [i \in 1..Len(results) |-> RenderItem(results[i], query)]]

\* the markup displayResultsPage assigns to container.innerHTML
RenderPage(results, query) ==
    IF Len(results) = 0
    THEN [kind |-> "empty",
          message |-> "No results found for \"" \o query \o "\"",
          suggestion |-> Suggestion, count |-> "", items |-> <<>>]
    ELSE [kind |-> "list", message |-> "", suggestion |-> "",
          count |-> CountHeader(Len(results), query),
          items |-> [i \in 1..Len(results) |-> RenderItem(results[i], query)]]

(***************************************************************************)
(* Query Engine: instance methods.  A method maps the state it may touch   *)
(* (a record st) to the state it leaves; st.call, st.written and st.threw  *)
(* record what the method did on the way.                                  *)
(***************************************************************************)
MaxHits == 2

\* the records (positions in the index) the matcher is let to return
HitDocs == {2, 5}

\* what fuse.search may return: lists of distinct records of the index,
\* at most MaxHits of them, drawn from HitDocs
HitLists ==
    {h \in UNION {[1..n -> HitDocs] : n \in 0..MaxHits} :
        \A i, j \in DOMAIN h : i # j => h[i] # h[j]}

\* the matcher's possible answers for an instance whose index is f
Answers(f) == IF f = NoFuse THEN {<<>>} ELSE HitLists

\* variant: the mapped results are reversed
Items_Reversed(f, hits) == [i \in 1..Len(hits) |-> f.docs[hits[Len(hits) + 1 - i]]]

\* fuse.search(query).map((r) => r.item)
Items(f, hits) == [i \in 1..Len(hits) |-> f.docs[hits[i]]]

\* the instance and DOM state at the start of a handler
Here ==
    [searchData |-> searchData, fuse |-> fuse, display |-> display,
     html |-> html, pageHtml |-> pageHtml,
     call |-> NoCall, written |-> {}, threw |-> FALSE]

\* variant: hiding also empties the container
hideResults_Clear(st) ==
    IF searchResultsRef THEN [st EXCEPT !.display = "none", !.html = Blank] ELSE st

hideResults(st) ==
    IF searchResultsRef THEN [st EXCEPT !.display = "none"] ELSE st

\* variant: the results replace this.searchData
displayResults_Consume(st, results, query) ==
    IF ~searchResultsRef THEN st
    ELSE [st EXCEPT !.html = RenderDropdown(results, query),
                    !.written = @ \cup {"search-results"},
                    !.display = "block",
                    !.searchData = results]

\* variant: rendering the markup already shown closes the dropdown
displayResults_Toggle(st, results, query) ==
    IF ~searchResultsRef THEN st
    ELSE [st EXCEPT !.html = RenderDropdown(results, query),
                    !.written = @ \cup {"search-results"},
                    !.display = IF st.display = "block"
                                   /\ st.html = RenderDropdown(results, query)
                                THEN "none" ELSE "block"]

\* variant: a dropdown that already shows results is not rewritten
displayResults_KeepFirst(st, results, query) ==
    IF ~searchResultsRef THEN st
    ELSE [st EXCEPT !.html = IF st.html.kind = "list" /\ st.display = "block"
                             THEN st.html ELSE RenderDropdown(results, query),
                    !.written = @ \cup {"search-results"},
                    !.display = "block"]

displayResults(st, results, query) ==
    IF ~searchResultsRef THEN st
    ELSE [st EXCEPT !.html = RenderDropdown(results, query),
                    !.written = @ \cup {"search-results"},
                    !.display = "block"]

displayResultsPage(st, results, query) ==
    IF ~hasPage THEN st
    ELSE [st EXCEPT !.pageHtml = RenderPage(results, query),
                    !.written = @ \cup {"search-results-page"}]

\* variant: without a built index the search renders an empty result list
performSearch_RenderUnbuilt(st, query, renderToPage, hits) ==
    IF st.fuse = NoFuse
    THEN IF renderToPage /\ hasPage
         THEN displayResultsPage(st, <<>>, query)
         ELSE displayResults(st, <<>>, query)
    ELSE LET searched == [st EXCEPT !.call = [called |-> TRUE, query |-> query, hits |-> hits]]
             results == Items(st.fuse, hits)
         IN  IF renderToPage /\ hasPage
             THEN displayResultsPage(searched, results, query)
             ELSE displayResults(searched, results, query)

\* variant: no check of this.fuse; this.fuse.search on null throws a TypeError
performSearch_NoGuard(st, query, renderToPage, hits) ==
    IF st.fuse = NoFuse THEN [st EXCEPT !.threw = TRUE]
    ELSE LET searched == [st EXCEPT !.call = [called |-> TRUE, query |-> query, hits |-> hits]]
             results == Items(st.fuse, hits)
         IN  IF renderToPage /\ hasPage
             THEN displayResultsPage(searched, results, query)
             ELSE displayResults(searched, results, query)

performSearch(st, query, renderToPage, hits) ==
    IF st.fuse = NoFuse THEN st
    ELSE LET searched == [st EXCEPT !.call = [called |-> TRUE, query |-> query, hits |-> hits]]
             results == Items(st.fuse, hits)
         IN  IF renderToPage /\ hasPage
             THEN displayResultsPage(searched, results, query)
             ELSE displayResults(searched, results, query)

\* variant: the listener uses e.target.value as it is
onInput_Raw(st, value, hits) ==
    IF Len(value) >= MinQueryLength
    THEN performSearch(st, value, FALSE, hits)
    ELSE hideResults(st)

\* "input" listener of bindEvents
onInput(st, value, hits) ==
    LET query == trim(value)
    IN  IF Len(query) >= MinQueryLength
        THEN performSearch(st, query, FALSE, hits)
        ELSE hideResults(st)

\* "submit" listener of bindEvents
onSubmit(st, value, hits) ==
    LET query == trim(value)
    IN  IF Len(query) >= MinQueryLength
        THEN performSearch(st, query, FALSE, hits)
        ELSE st

\* document "click" listener of bindEvents
onClick(st, outside) == IF outside THEN hideResults(st) ELSE st

\* "keydown" listener of bindEvents
onKeydown(st, key) == IF key = "Escape" THEN hideResults(st) ELSE st

\* listeners bindEvents registers
bindEvents(inputRef) ==
    IF ~inputRef THEN {}
    ELSE {"input", "click", "keydown"} \cup (IF hasForm THEN {"submit"} ELSE {})

(***************************************************************************)
(* Query Engine: state machine                                             *)
(***************************************************************************)
InputValues == {"", " a ", " To "}
CallQueries == {"a", "To"}
Keys == {"Escape", "Enter"}

Commit(after) ==
    \E st \in {after} :
    /\ searchData' = st.searchData
    /\ fuse' = st.fuse
    /\ display' = st.display
    /\ html' = st.html
    /\ pageHtml' = st.pageHtml
    /\ matcherCall' = st.call
    /\ written' = st.written
    /\ threw' = st.threw

Quiet == matcherCall' = NoCall /\ written' = {} /\ threw' = FALSE

EngineInit ==
    /\ hasInput \in BOOLEAN
    /\ hasForm \in BOOLEAN
    /\ hasPage \in BOOLEAN
    /\ windowFuse \in BOOLEAN
    /\ resultsInDoc \in BOOLEAN
    /\ domLoaded = FALSE
    /\ script = "none"
    /\ instance = "none"
    /\ nInstances = 0
    /\ nFuseBuilt = 0
    /\ searchData = <<>>
    /\ fuse = NoFuse
    /\ searchInputRef = FALSE
    /\ searchResultsRef = FALSE
    /\ bound = {}
    /\ display = ""
    /\ html = Blank
    /\ pageHtml = Blank
    /\ inputValue = ""
    /\ lastOp = [op |-> "load", arg |-> ""]
    /\ matcherCall = NoCall
    /\ written = {}
    /\ threw = FALSE
    /\ rejected = FALSE

\* new DocumentationSearch(): the constructor, then init() up to its await;
\* loadSearchData has no await of its own, so its body runs in the same task
Construct ==
    /\ searchData' = EnginePages
    /\ fuse' = NoFuse
    /\ searchInputRef' = FALSE
    /\ searchResultsRef' = FALSE
    /\ instance' = "awaitLoad"
    /\ nInstances' = nInstances + 1

\* variant: the CDN script is injected even when window.Fuse is present
DOMContentLoaded_AlwaysInject ==
    /\ ~domLoaded
    /\ domLoaded' = TRUE
    /\ script' = "pending"
    /\ IF windowFuse
       THEN Construct
       ELSE UNCHANGED <<searchData, fuse, searchInputRef, searchResultsRef,
                        instance, nInstances>>
    /\ lastOp' = [op |-> "DOMContentLoaded", arg |-> ""]
    /\ Quiet
    /\ UNCHANGED <<hasInput, hasForm, hasPage, windowFuse, nFuseBuilt, bound,
                   resultsInDoc, display, html, pageHtml, inputValue, rejected>>

\* the DOMContentLoaded listener
DOMContentLoaded ==
    /\ ~domLoaded
    /\ domLoaded' = TRUE
    /\ IF windowFuse
       THEN Construct /\ UNCHANGED script
       ELSE script' = "pending"
            /\ UNCHANGED <<searchData, fuse, searchInputRef, searchResultsRef,
                           instance, nInstances>>
    /\ lastOp' = [op |-> "DOMContentLoaded", arg |-> ""]
    /\ Quiet
    /\ UNCHANGED <<hasInput, hasForm, hasPage, windowFuse, nFuseBuilt, bound,
                   resultsInDoc, display, html, pageHtml, inputValue, rejected>>

\* script.onload: the CDN response has been evaluated; it defines window.Fuse
\* or (a response that is not the library) leaves it undefined
ScriptOnload(defines) ==
    /\ script = "pending"
    /\ script' = "loaded"
    /\ windowFuse' = defines
    /\ Construct
    /\ lastOp' = [op |-> "onload", arg |-> ""]
    /\ Quiet
    /\ UNCHANGED <<hasInput, hasForm, hasPage, domLoaded, nFuseBuilt, bound,
                   resultsInDoc, display, html, pageHtml, inputValue, rejected>>

\* the CDN request fails: no onerror listener is registered
ScriptError ==
    /\ script = "pending"
    /\ script' = "error"
    /\ lastOp' = [op |-> "onerror", arg |-> ""]
    /\ Quiet
    /\ UNCHANGED <<hasInput, hasForm, hasPage, windowFuse, domLoaded, instance,
                   nInstances, nFuseBuilt, searchData, fuse, searchInputRef,
                   searchResultsRef, bound, resultsInDoc, display, html,
                   pageHtml, inputValue, rejected>>

\* init() after its await: setupFuse, setupSearchInterface, bindEvents.
\* new window.Fuse throws a TypeError when window.Fuse is undefined; init is
\* async, so the throw rejects its promise and the rest of init is skipped.
InitResume ==
    /\ instance = "awaitLoad"
    /\ IF ~windowFuse
       THEN /\ instance' = "failed"
            /\ rejected' = TRUE
            /\ UNCHANGED <<fuse, nFuseBuilt, searchInputRef, searchResultsRef,
                           bound, resultsInDoc, display, html>>
       ELSE /\ fuse' = NewFuse(searchData)
            /\ nFuseBuilt' = nFuseBuilt + 1
            /\ searchInputRef' = hasInput
            /\ resultsInDoc' = (resultsInDoc \/ hasForm)
            /\ display' = IF ~resultsInDoc /\ hasForm THEN "none" ELSE display
            /\ html' = IF ~resultsInDoc /\ hasForm THEN Blank ELSE html
            /\ searchResultsRef' = resultsInDoc'
            /\ bound' = bindEvents(searchInputRef')
            /\ instance' = "ready"
            /\ UNCHANGED rejected
    /\ lastOp' = [op |-> "init", arg |-> ""]
    /\ Quiet
    /\ UNCHANGED <<hasInput, hasForm, hasPage, windowFuse, domLoaded, script,
                   nInstances, searchData, pageHtml, inputValue>>

EnvUnchanged ==
    UNCHANGED <<hasInput, hasForm, hasPage, windowFuse, domLoaded, script,
                instance, nInstances, nFuseBuilt, searchInputRef,
                searchResultsRef, bound, resultsInDoc, rejected>>

\* the user edits the search box; the "input" event is dispatched
InputEvent(v, hits) ==
    /\ hasInput
    /\ inputValue' = v
    /\ lastOp' = [op |-> "input", arg |-> v]
    /\ Commit(IF "input" \in bound THEN onInput(Here, v, hits) ELSE Here)
    /\ EnvUnchanged

\* the search form is submitted
SubmitEvent(hits) ==
    /\ hasForm
    /\ lastOp' = [op |-> "submit", arg |-> inputValue]
    /\ Commit(IF "submit" \in bound THEN onSubmit(Here, inputValue, hits) ELSE Here)
    /\ UNCHANGED inputValue
    /\ EnvUnchanged

\* a click somewhere in the document; outside = the target is neither in
\* .sg-header__search nor in .search-results
ClickEvent(outside) ==
    /\ lastOp' = [op |-> "click", arg |-> IF outside THEN "outside" ELSE "inside"]
    /\ Commit(IF "click" \in bound THEN onClick(Here, outside) ELSE Here)
    /\ UNCHANGED inputValue
    /\ EnvUnchanged

\* a key is pressed in the search box
KeydownEvent(key) ==
    /\ hasInput
    /\ lastOp' = [op |-> "keydown", arg |-> key]
    /\ Commit(IF "keydown" \in bound THEN onKeydown(Here, key) ELSE Here)
    /\ UNCHANGED inputValue
    /\ EnvUnchanged

\* a page script calls window.__docSearchInstance.performSearch(query, renderToPage)
CallPerformSearch(query, renderToPage, hits) ==
    /\ instance # "none"
    /\ lastOp' = [op |-> "performSearch", arg |-> query]
    /\ Commit(performSearch(Here, query, renderToPage, hits))
    /\ UNCHANGED inputValue
    /\ EnvUnchanged

SummaryIdle == sumContent = "" /\ sumQuery = "" /\ sumOut = [done |-> FALSE, value |-> ""]
BuilderIdle == envPrefix = "" /\ pathPrefix = "/" /\ files = <<>> /\ cursor = 0 /\ pages = <<>>
NoRecord == [title |-> "", url |-> "", content |-> "", summary |-> "", keywords |-> "", sections |-> <<>>]
RecordIdle == srcBody = "" /\ record = [done |-> FALSE, value |-> NoRecord]

Init == EngineInit /\ SummaryIdle /\ BuilderIdle /\ RecordIdle

Next ==
    \/ DOMContentLoaded /\ UNCHANGED <<summaryVars, builderVars, recordVars>>
    \/ (\E defines \in BOOLEAN : ScriptOnload(defines)) /\ UNCHANGED <<summaryVars, builderVars, recordVars>>
    \/ ScriptError /\ UNCHANGED <<summaryVars, builderVars, recordVars>>
    \/ InitResume /\ UNCHANGED <<summaryVars, builderVars, recordVars>>
    \/ (\E v \in InputValues, hits \in Answers(fuse) : InputEvent(v, hits)) /\ UNCHANGED <<summaryVars, builderVars, recordVars>>
    \/ (\E hits \in Answers(fuse) : SubmitEvent(hits)) /\ UNCHANGED <<summaryVars, builderVars, recordVars>>
    \/ (\E outside \in BOOLEAN : ClickEvent(outside)) /\ UNCHANGED <<summaryVars, builderVars, recordVars>>
    \/ (\E key \in Keys : KeydownEvent(key)) /\ UNCHANGED <<summaryVars, builderVars, recordVars>>
    \/ (\E query \in CallQueries, renderToPage \in BOOLEAN, hits \in Answers(fuse) :
            CallPerformSearch(query, renderToPage, hits)) /\ UNCHANGED <<summaryVars, builderVars, recordVars>>

Spec == Init /\ [][Next]_vars

(***************************************************************************)
(* getSearchSummary as a pure function: inputs drawn from bounded sets     *)
(***************************************************************************)
MaxMid == 3
MaxQueryLen == 2

\* strings over alphabet of length at most n
RECURSIVE StringsUpTo(_, _)
StringsUpTo(alphabet, n) ==
    IF n = 0 THEN {""}
    ELSE LET shorter == StringsUpTo(alphabet, n - 1)
         IN  shorter \cup {s \o c : s \in shorter, c \in alphabet}

LeadLens == {0, 1, 39, 40, 41}
TailLens == {0, 1, 39, 40, 41, 80, 120, 121}

\* contents: a run of filler, a short mixed-case middle, a run of filler
SummaryContents ==
    {Repeat("x", p) \o mid \o Repeat("x", t) :
        p \in LeadLens, mid \in StringsUpTo({"a", "B"}, MaxMid), t \in TailLens}
SummaryQueries == StringsUpTo({"a", "b", "B"}, MaxQueryLen)

EngineIdle ==
    /\ hasInput = FALSE /\ hasForm = FALSE /\ hasPage = FALSE
    /\ windowFuse = FALSE /\ resultsInDoc = FALSE /\ domLoaded = FALSE
    /\ script = "none" /\ instance = "none" /\ nInstances = 0 /\ nFuseBuilt = 0
    /\ searchData = <<>> /\ fuse = NoFuse
    /\ searchInputRef = FALSE /\ searchResultsRef = FALSE /\ bound = {}
    /\ display = "" /\ html = Blank /\ pageHtml = Blank /\ inputValue = ""
    /\ lastOp = [op |-> "load", arg |-> ""]
    /\ matcherCall = NoCall /\ written = {} /\ threw = FALSE /\ rejected = FALSE

SummaryInit ==
    /\ sumContent \in SummaryContents
    /\ sumQuery \in SummaryQueries
    /\ sumOut = [done |-> FALSE, value |-> ""]

\* this.getSearchSummary(result, query) for a record with the given content
CallSummary ==
    /\ ~sumOut.done
    /\ sumOut' = [done |-> TRUE,
                  value |-> getSearchSummary([title |-> "", url |-> "", content |-> sumContent], sumQuery)]
    /\ UNCHANGED <<sumContent, sumQuery>>

InitSummary == EngineIdle /\ SummaryInit /\ BuilderIdle /\ RecordIdle
NextSummary == CallSummary /\ UNCHANGED <<engineVars, builderVars, recordVars>>
SpecSummary == InitSummary /\ [][NextSummary]_vars

(***************************************************************************)
(* Index Builder (src/_data/fullSearchIndex.js)                            *)
(***************************************************************************)
SummaryLen == 200

\* the manifest
pageFiles == <<
    [file |-> "index.md", url |-> "/", title |-> "Home"],
    [file |-> "getting-started.md", url |-> "/getting-started/", title |-> "Getting Started"],
    [file |-> "architecture.md", url |-> "/architecture/", title |-> "Architecture"],
    [file |-> "scotaccount-guide.md", url |-> "/scotaccount-guide/", title |-> "Implementation Guide"],
    [file |-> "scotaccount-complete-guide.md", url |-> "/scotaccount-complete-guide/", title |-> "Comprehensive Guide"],
    [file |-> "scotaccount-token-validation-module.md", url |-> "/scotaccount-token-validation-module/", title |-> "Token Validation Module"],
    [file |-> "integration-examples.md", url |-> "/integration-examples/", title |-> "Integration Examples"],
    [file |-> "scotaccount-modular-structure.md", url |-> "/scotaccount-modular-structure/", title |-> "Modular Structure"] >>

\* values of the environment variable ELEVENTY_PATH_PREFIX ("" = unset or empty)
EnvPrefixes == {"", "/", "/sg-identity-techdocs/", "/sg-identity-techdocs"}

\* process.env.ELEVENTY_PATH_PREFIX || "/"
PathPrefixOf(env) == IF env = "" THEN "/" ELSE env

\* pathPrefix.replace(/\/$/, '')
StripTrailingSlash(s) ==
    IF Len(s) > 0 /\ CharAt(s, Len(s) - 1) = "/" THEN SubSeq(s, 1, Len(s) - 1) ELSE s

\* variant: the URL of the page is lost under a prefix
prefixUrl_DropUrl(url) ==
    IF pathPrefix = "/" THEN url ELSE StripTrailingSlash(pathPrefix) \o "/"

\* variant: the trailing slash of the prefix is kept
prefixUrl_NoStrip(url) ==
    IF pathPrefix = "/" THEN url ELSE pathPrefix \o url

prefixUrl(url) ==
    IF pathPrefix = "/" THEN url ELSE StripTrailingSlash(pathPrefix) \o url

\* variant: the ellipsis is appended only to content that was cut
SummaryOf_EllipsisIfCut(cleanedContent) ==
    IF Len(cleanedContent) > SummaryLen
    THEN substring(cleanedContent, 0, SummaryLen) \o "..."
    ELSE cleanedContent

\* cleanedContent.substring(0, 200) + '...'
SummaryOf(cleanedContent) == substring(cleanedContent, 0, SummaryLen) \o "..."

(***************************************************************************)
(* Index Builder: regular expressions of cleanContent.  A match operator   *)
(* xEnd(s, i) gives the 1-based position just after the match of the       *)
(* expression that starts at position i of s, or 0 when there is none; the *)
(* replace operators scan s from left to right as a /g replace does.       *)
(***************************************************************************)
\* the backquote character U+0060; a string literal of this module cannot
\* hold it, so the texts of the model write it as ^
BQ == "^"
Fence == BQ \o BQ \o BQ

\* the character at 1-based position i of s, "" outside s
At(s, i) == IF i >= 1 /\ i <= Len(s) THEN SubSeq(s, i, i) ELSE ""

StartsAt(s, i, t) == i >= 1 /\ i + Len(t) - 1 <= Len(s) /\ SubSeq(s, i, i + Len(t) - 1) = t

\* least position j >= i where t occurs in s, 0 if none
FindFrom(s, t, i) ==
    LET last == Len(s) - Len(t) + 1
    IN  IF \E j \in i..last : StartsAt(s, j, t)
        THEN CHOOSE j \in i..last :
                 StartsAt(s, j, t) /\ \A k \in i..(j - 1) : ~StartsAt(s, k, t)
        ELSE 0

\* /```[\s\S]*?```/
fenceEnd(s, i) ==
    IF StartsAt(s, i, Fence) /\ FindFrom(s, Fence, i + 3) # 0
    THEN FindFrom(s, Fence, i + 3) + 3 ELSE 0

\* /`[^`]+`/
inlineCodeEnd(s, i) ==
    IF At(s, i) = BQ /\ At(s, i + 1) \notin {"", BQ} /\ FindFrom(s, BQ, i + 2) # 0
    THEN FindFrom(s, BQ, i + 2) + 1 ELSE 0

\* /\[([^\]]+)\]\([^)]+\)/: position of the "]" that closes the link text, 0 if no match at i
linkTextEnd(s, i) ==
    IF At(s, i) = "[" /\ At(s, i + 1) \notin {"", "]"}
    THEN LET j == FindFrom(s, "]", i + 2)
         IN  IF j # 0 /\ At(s, j + 1) = "(" /\ At(s, j + 2) \notin {"", ")"}
                      /\ FindFrom(s, ")", j + 3) # 0
             THEN j ELSE 0
    ELSE 0

linkEnd(s, i) ==
    IF linkTextEnd(s, i) = 0 THEN 0 ELSE FindFrom(s, ")", linkTextEnd(s, i) + 3) + 1

\* /[#*_~]/
IsMarkup(c) == c \in {"#", "*", "_", "~"}

\* /\[\[toc\]\]/i
tocEnd(s, i) ==
    IF StartsAt(s, i, "[[") /\ StartsAt(s, i + 5, "]]")
          /\ toLowerCase(SubSeq(s, i + 2, i + 4)) = "toc"
    THEN i + 7 ELSE 0

\* /<!--[\s\S]*?-->/
commentEnd(s, i) ==
    IF StartsAt(s, i, "<!--") /\ FindFrom(s, "-->", i + 4) # 0
    THEN FindFrom(s, "-->", i + 4) + 3 ELSE 0

\* /<[^>]+>/
tagEnd(s, i) ==
    IF At(s, i) = "<" /\ At(s, i + 1) \notin {"", ">"} /\ FindFrom(s, ">", i + 2) # 0
    THEN FindFrom(s, ">", i + 2) + 1 ELSE 0

\* length of the run of characters of class cls that starts at position i of s
RECURSIVE RunLen(_, _, _)
RunLen(s, i, cls) == IF At(s, i) \in cls THEN 1 + RunLen(s, i + 1, cls) ELSE 0

\* least element of a set of positions, 0 for the empty set
Least(S) == IF S = {} THEN 0 ELSE CHOOSE j \in S : \A k \in S : j <= k

\* .replace(/```[\s\S]*?```/g, ''), from position i on
RECURSIVE removeFences(_, _)
removeFences(s, i) ==
    LET j == Least({k \in i..Len(s) : fenceEnd(s, k) # 0})
    IN  IF j = 0 THEN SubSeq(s, i, Len(s))
        ELSE SubSeq(s, i, j - 1) \o removeFences(s, fenceEnd(s, j))

\* .replace(/`[^`]+`/g, '')
RECURSIVE removeInlineCode(_, _)
removeInlineCode(s, i) ==
    LET j == Least({k \in i..Len(s) : inlineCodeEnd(s, k) # 0})
    IN  IF j = 0 THEN SubSeq(s, i, Len(s))
        ELSE SubSeq(s, i, j - 1) \o removeInlineCode(s, inlineCodeEnd(s, j))

\* .replace(/\[([^\]]+)\]\([^)]+\)/g, '$1')
RECURSIVE linksToText(_, _)
linksToText(s, i) ==
    LET j == Least({k \in i..Len(s) : linkEnd(s, k) # 0})
    IN  IF j = 0 THEN SubSeq(s, i, Len(s))
        ELSE SubSeq(s, i, j - 1) \o SubSeq(s, j + 1, linkTextEnd(s, j) - 1)
                 \o linksToText(s, linkEnd(s, j))

\* .replace(/[#*_~]/g, '')
RECURSIVE removeMarkup(_, _)
removeMarkup(s, i) ==
    LET j == Least({k \in i..Len(s) : IsMarkup(At(s, k))})
    IN  IF j = 0 THEN SubSeq(s, i, Len(s))
        ELSE SubSeq(s, i, j - 1) \o removeMarkup(s, j + 1)

\* .replace(/\[\[toc\]\]/gi, '')
RECURSIVE removeToc(_, _)
removeToc(s, i) ==
    LET j == Least({k \in i..Len(s) : tocEnd(s, k) # 0})
    IN  IF j = 0 THEN SubSeq(s, i, Len(s))
        ELSE SubSeq(s, i, j - 1) \o removeToc(s, tocEnd(s, j))

\* .replace(/<!--[\s\S]*?-->/g, '')
RECURSIVE removeComments(_, _)
removeComments(s, i) ==
    LET j == Least({k \in i..Len(s) : commentEnd(s, k) # 0})
    IN  IF j = 0 THEN SubSeq(s, i, Len(s))
        ELSE SubSeq(s, i, j - 1) \o removeComments(s, commentEnd(s, j))

\* .replace(/<[^>]+>/g, '')
RECURSIVE removeTags(_, _)
removeTags(s, i) ==
    LET j == Least({k \in i..Len(s) : tagEnd(s, k) # 0})
    IN  IF j = 0 THEN SubSeq(s, i, Len(s))
        ELSE SubSeq(s, i, j - 1) \o removeTags(s, tagEnd(s, j))

\* .replace(/\n{3,}/g, '\n\n')
RECURSIVE squeezeNewlines(_, _)
squeezeNewlines(s, i) ==
    LET j == Least({k \in i..Len(s) : StartsAt(s, k, "\n\n\n")})
    IN  IF j = 0 THEN SubSeq(s, i, Len(s))
        ELSE SubSeq(s, i, j - 1) \o "\n\n" \o squeezeNewlines(s, j + RunLen(s, j, {"\n"}))

\* variant: the text is not lowercased
cleanContent_KeepCase(content) ==
    trim(squeezeNewlines(removeTags(removeComments(removeToc(removeMarkup(
        linksToText(removeInlineCode(removeFences(content, 1), 1), 1), 1), 1), 1), 1), 1))

\* cleanContent: the chain of replaces, then .toLowerCase()
cleanContent(content) ==
    toLowerCase(
        trim(squeezeNewlines(removeTags(removeComments(removeToc(removeMarkup(
            linksToText(removeInlineCode(removeFences(content, 1), 1), 1), 1), 1), 1), 1), 1)))

(***************************************************************************)
(* Index Builder: keywords, sections and the record of one page            *)
(***************************************************************************)
Hash == {"#"}
LowerLetters == {UpperToLower[c] : c \in DOMAIN UpperToLower}
Digits == {"0", "1", "2", "3", "4", "5", "6", "7", "8", "9"}
White == {" ", "\t", "\n"}

\* \w
IsWordChar(c) == c \in LowerLetters \cup DOMAIN UpperToLower \cup Digits \cup {"_"}

\* ^ under the m flag
IsLineStart(s, i) == i = 1 \/ At(s, i - 1) = "\n"

\* position of the last character of the line that holds position p
LineEnd(s, p) == IF FindFrom(s, "\n", p) = 0 THEN Len(s) ELSE FindFrom(s, "\n", p) - 1

\* /^#{1,3}\s+(.+)$/m at position i: position of the last character of the
\* match, 0 if none.  \s+ takes the longest run of white space (line breaks
\* included) that leaves a character other than a line break for (.+)
keywordEnd(s, i) ==
    LET h == RunLen(s, i, Hash)
        w == RunLen(s, i + h, White)
        K == {k \in 1..w : At(s, i + h + k) \notin {"", "\n"}}
    IN  IF IsLineStart(s, i) /\ h \in 1..3 /\ K # {}
        THEN LineEnd(s, i + h + (CHOOSE k \in K : \A l \in K : l <= k))
        ELSE 0

\* h.replace(/^#+\s+/, '').toLowerCase()
keywordText(h) ==
    LET n == RunLen(h, 1, Hash)
        w == RunLen(h, n + 1, White)
    IN  toLowerCase(IF n >= 1 /\ w >= 1 THEN SubSeq(h, n + w + 1, Len(h)) ELSE h)

\* content.match(/^#{1,3}\s+(.+)$/gm)?.map(...), from position i on
RECURSIVE keywordList(_, _)
keywordList(s, i) ==
    LET j == Least({k \in i..Len(s) : keywordEnd(s, k) # 0})
        e == keywordEnd(s, j)
    IN  IF j = 0 THEN <<>>
        ELSE <<keywordText(SubSeq(s, j, e))>> \o keywordList(s, e + 1)

\* Array.prototype.join
RECURSIVE join(_, _)
join(list, sep) ==
    IF Len(list) = 0 THEN ""
    ELSE IF Len(list) = 1 THEN list[1]
    ELSE list[1] \o sep \o join(Tail(list), sep)

\* the keywords field: ...?.map(...).join(' ') || ''
KeywordsOf(content) == join(keywordList(content, 1), " ")

\* String.prototype.split('\n'), from position i on
RECURSIVE splitLines(_, _)
splitLines(s, i) ==
    LET j == FindFrom(s, "\n", i)
    IN  IF j = 0 THEN <<SubSeq(s, i, Len(s))>>
        ELSE <<SubSeq(s, i, j - 1)>> \o splitLines(s, j + 1)

\* line.match(/^(#{2,4})\s+(.+)$/): [matched, level, heading]
headingMatch(line) ==
    LET h == RunLen(line, 1, Hash)
        w == RunLen(line, h + 1, White)
    IN  IF h \in 2..4 /\ w >= 1 /\ h + w < Len(line)
        THEN [matched |-> TRUE, level |-> h, heading |-> SubSeq(line, h + w + 1, Len(line))]
        ELSE IF h \in 2..4 /\ w >= 2 /\ h + w = Len(line)
        THEN [matched |-> TRUE, level |-> h, heading |-> SubSeq(line, Len(line), Len(line))]
        ELSE [matched |-> FALSE, level |-> 0, heading |-> ""]

\* .replace(/[^\w\s-]/g, '')
RECURSIVE removeNonSlug(_, _)
removeNonSlug(s, i) ==
    LET j == Least({k \in i..Len(s) : ~IsWordChar(At(s, k)) /\ At(s, k) \notin White \cup {"-"}})
    IN  IF j = 0 THEN SubSeq(s, i, Len(s))
        ELSE SubSeq(s, i, j - 1) \o removeNonSlug(s, j + 1)

\* .replace(/\s+/g, '-')
RECURSIVE spacesToDash(_, _)
spacesToDash(s, i) ==
    LET j == Least({k \in i..Len(s) : At(s, k) \in White})
    IN  IF j = 0 THEN SubSeq(s, i, Len(s))
        ELSE SubSeq(s, i, j - 1) \o "-" \o spacesToDash(s, j + RunLen(s, j, White))

\* the length of the run of "-" that ends s
RECURSIVE DashTail(_)
DashTail(s) ==
    IF Len(s) > 0 /\ At(s, Len(s)) = "-" THEN 1 + DashTail(SubSeq(s, 1, Len(s) - 1)) ELSE 0

\* .replace(/^-+|-+$/g, '')
trimDashes(s) ==
    LET a == RunLen(s, 1, {"-"})
    IN  IF a = Len(s) THEN "" ELSE SubSeq(s, a + 1, Len(s) - DashTail(s))

\* .replace(/[\s_-]+/g, "-") of the site's slugify
RECURSIVE runsToDash(_, _)
runsToDash(s, i) ==
    LET j == Least({k \in i..Len(s) : At(s, k) \in White \cup {"_", "-"}})
    IN  IF j = 0 THEN SubSeq(s, i, Len(s))
        ELSE SubSeq(s, i, j - 1) \o "-" \o runsToDash(s, j + RunLen(s, j, White \cup {"_", "-"}))

\* slugify of .eleventy.js, the function markdown-it-anchor is configured
\* with; normalize("NFKD") changes no character of the headings' alphabet
slugify(str) ==
    trimDashes(runsToDash(removeNonSlug(toLowerCase(str), 1), 1))

\* variant: hyphens are deleted with the other punctuation
sectionId_DropHyphen(heading) ==
    LET RECURSIVE noDash(_, _)
        noDash(s, i) ==
            IF FindFrom(s, "-", i) = 0 THEN SubSeq(s, i, Len(s))
            ELSE SubSeq(s, i, FindFrom(s, "-", i) - 1) \o noDash(s, FindFrom(s, "-", i) + 1)
    IN  trimDashes(spacesToDash(removeNonSlug(noDash(toLowerCase(heading), 1), 1), 1))

\* the id of a section (lines 49-56)
sectionId(heading) ==
    trimDashes(spacesToDash(removeNonSlug(toLowerCase(heading), 1), 1))

NoSection == [heading |-> "", id |-> "", content |-> "", level |-> 0]

\* variant: a section is pushed whenever it has a heading, with or without
\* lines under it, and never without one
sectionsFrom_PushAll(lines, k, sections, currentSection) ==
    LET H == {j \in k..Len(lines) : headingMatch(lines[j]).matched}
        nxt(b) == IF {h \in H : h > b} = {} THEN Len(lines) + 1
                  ELSE CHOOSE h \in H : h > b /\ \A g \in H : g > b => h <= g
        raw(b) == IF nxt(b) = b + 1 THEN ""
                  ELSE join(SubSeq(lines, b + 1, nxt(b) - 1), "\n") \o "\n"
        idx == [i \in 1..Cardinality(H) |->
                   CHOOSE h \in H : Cardinality({g \in H : g < h}) = i - 1]
    IN  [i \in 1..Cardinality(H) |->
            [heading |-> headingMatch(lines[idx[i]]).heading,
             id |-> sectionId(headingMatch(lines[idx[i]]).heading),
             content |-> raw(idx[i]),
             level |-> headingMatch(lines[idx[i]]).level]]

\* the loop of extractSections over lines[k..], with the sections pushed so
\* far and the section being filled
RECURSIVE sectionsFrom(_, _, _, _)
sectionsFrom(lines, k, sections, currentSection) ==
    LET pushed == IF currentSection.content # ""
                  THEN Append(sections, currentSection) ELSE sections
    IN  IF k > Len(lines) THEN pushed
        ELSE IF headingMatch(lines[k]).matched
        THEN sectionsFrom(lines, k + 1, pushed,
                 [heading |-> headingMatch(lines[k]).heading,
                  id |-> sectionId(headingMatch(lines[k]).heading),
                  content |-> "",
                  level |-> headingMatch(lines[k]).level])
        ELSE sectionsFrom(lines, k + 1, sections,
                 [currentSection EXCEPT !.content = @ \o lines[k] \o "\n"])

extractSections(content) == sectionsFrom(splitLines(content, 1), 1, <<>>, NoSection)

\* the object pages.push receives for a manifest entry whose file holds the
\* front-matter title dataTitle ("" = none) and the body content
PageRecord(page, dataTitle, content) ==
    LET cleanedContent == cleanContent(content)
        sections == extractSections(content)
    IN  [title |-> IF dataTitle # "" THEN dataTitle ELSE page.title,
         url |-> prefixUrl(page.url),
         content |-> cleanedContent,
         summary |-> SummaryOf(cleanedContent),
         keywords |-> KeywordsOf(content),
         sections |-> [i \in 1..Len(sections) |->
                          [heading |-> sections[i].heading,
                           id |-> sections[i].id,
                           content |-> cleanContent(sections[i].content)]]]

MaxIrregular == 2

\* the body of a file of the documentation, as matter() returns it
SampleBody == "# Guide\nIntro\n## Set Up\nRun ^npm^\n"

\* the usual file: present, readable, front matter with a title
UsualFile ==
    [exists |-> TRUE, readable |-> TRUE, parses |-> TRUE,
     title |-> "Front Matter Title", body |-> SampleBody]

\* what the builder can find on disk for a manifest entry: the usual file,
\* a file whose front matter has no title, no file (existsSync is false), a
\* file readFileSync throws on, or a file whose front matter matter() throws on
FileStates ==
    {UsualFile,
     [UsualFile EXCEPT !.title = ""],
     [exists |-> FALSE, readable |-> FALSE, parses |-> FALSE, title |-> "", body |-> ""],
     [exists |-> TRUE, readable |-> FALSE, parses |-> FALSE, title |-> "", body |-> ""],
     [exists |-> TRUE, readable |-> TRUE, parses |-> FALSE, title |-> "", body |-> ""]}

\* number of entries visited so far whose file is not the usual one
Irregular == Cardinality({i \in DOMAIN files : files[i] # UsualFile})

BuilderInit ==
    /\ envPrefix \in EnvPrefixes
    /\ pathPrefix = PathPrefixOf(envPrefix)
    /\ files = <<>>
    /\ cursor = 1
    /\ pages = <<>>

\* variant: no existsSync test and no try/catch: the first file that cannot
\* be read or parsed ends the loop
ProcessPage_Abort(f) ==
    /\ cursor \in 1..Len(pageFiles)
    /\ f = UsualFile \/ Irregular < MaxIrregular
    /\ pages' = IF f.exists /\ f.readable /\ f.parses
                THEN Append(pages, PageRecord(pageFiles[cursor], f.title, f.body))
                ELSE pages
    /\ files' = Append(files, f)
    /\ cursor' = IF f.exists /\ f.readable /\ f.parses
                 THEN cursor + 1 ELSE Len(pageFiles) + 1
    /\ UNCHANGED <<envPrefix, pathPrefix>>

\* variant: matter() failing is taken as "no front matter": a record with the
\* manifest title and an empty body is pushed
ProcessPage_DefaultTitle(f) ==
    /\ cursor \in 1..Len(pageFiles)
    /\ f = UsualFile \/ Irregular < MaxIrregular
    /\ pages' = IF f.exists /\ f.readable
                THEN Append(pages, PageRecord(pageFiles[cursor], f.title, f.body))
                ELSE pages
    /\ files' = Append(files, f)
    /\ cursor' = cursor + 1
    /\ UNCHANGED <<envPrefix, pathPrefix>>

\* one iteration of pageFiles.forEach: f is what existsSync, readFileSync and
\* matter find for the entry.  A missing file is passed over; an exception of
\* readFileSync or matter is caught and logged, and nothing is pushed
ProcessPage(f) ==
    /\ cursor \in 1..Len(pageFiles)
    /\ f = UsualFile \/ Irregular < MaxIrregular
    /\ pages' = IF f.exists /\ f.readable /\ f.parses
                THEN Append(pages, PageRecord(pageFiles[cursor], f.title, f.body))
                ELSE pages
    /\ files' = Append(files, f)
    /\ cursor' = cursor + 1
    /\ UNCHANGED <<envPrefix, pathPrefix>>

\* return { pages }
BuildDone == cursor = Len(pageFiles) + 1

InitBuild == EngineIdle /\ SummaryIdle /\ BuilderInit /\ RecordIdle
NextBuild == (\E f \in FileStates : ProcessPage(f)) /\ UNCHANGED <<engineVars, summaryVars, recordVars>>
SpecBuild == InitBuild /\ [][NextBuild]_vars

(***************************************************************************)
(* The record of one page as a function of the body of its file            *)
(***************************************************************************)
MaxLines == 3

\* length of the run of filler text in a long block
LongRun == SummaryLen - 43

\* lines (and blocks of lines) a body is made of
BodyLines ==
    {"# Top Title", "## Getting Started", "### API & Keys",
     "Plain Text", "Use ^Code^ [Link](U) <b>B</b> [[TOC]] <!-- Note -->", Fence, "",
     "~~~\nTilde Block\n~~~",
     "## getting started!\nMore text",
     "## PKCE Implementation\nIntro\n#### Sign-in - Set_Up\n" \o Repeat("y", LongRun)}

\* bodies of 1..MaxLines lines
Bodies ==
    {join(ls, "\n") : ls \in UNION {[1..n -> BodyLines] : n \in 1..MaxLines}}

RecordInit ==
    /\ srcBody \in Bodies
    /\ record = [done |-> FALSE, value |-> NoRecord]

\* the body of pageFiles.forEach for a file that is read and parsed
IndexBody ==
    /\ ~record.done
    /\ record' = [done |-> TRUE, value |-> PageRecord(pageFiles[2], "", srcBody)]
    /\ UNCHANGED srcBody

InitRecord == EngineIdle /\ SummaryIdle /\ BuilderIdle /\ RecordInit
NextRecord == IndexBody /\ UNCHANGED <<engineVars, summaryVars, builderVars>>
SpecRecord == InitRecord /\ [][NextRecord]_vars

(***************************************************************************)
(* Index lifecycle                                                         *)
(***************************************************************************)
\* the lifecycle state of the engine, read off the bootstrap and the instance
Phase ==
    IF fuse.built THEN "Ready"
    ELSE IF script = "error" \/ instance = "failed" THEN "Unavailable"
    ELSE IF ~domLoaded THEN "Uninitialized"
    ELSE "Loading"

Unavailable == Phase = "Unavailable"
UserOps == {"input", "submit", "click", "keydown", "performSearch"}

(***************************************************************************)
(* Properties                                                              *)
(***************************************************************************)

\* C1 (as stated): a step whose query is shorter than 2 characters, be it an
\* input event, a submit event or a call of performSearch, neither calls
\* fuse.search nor writes a results container.
C1_Original ==
    (lastOp.op \in {"input", "submit", "performSearch"} /\ Len(lastOp.arg) < MinQueryLength)
        => (~matcherCall.called /\ written = {})

\* C2: once the dependency or the index has failed to load the engine stays
\* Unavailable: no step searches, renders, shows the panel or lets an
\* exception escape.
C2_UnavailableIsTerminal ==
    /\ [](Unavailable =>
            /\ display # "block" /\ html = Blank /\ pageHtml = Blank
            /\ ~matcherCall.called /\ written = {} /\ ~threw)
    /\ [][Unavailable => Unavailable']_vars

C2_Witness == instance = "failed" /\ Unavailable /\ lastOp.op = "performSearch"

\* C3: the lifecycle only moves Uninitialized -> Loading -> Ready (or from
\* Loading to Unavailable); a Ready engine stays Ready under every event.
C3_LifecycleMonotonic ==
    [][/\ (Phase = "Ready" => Phase' = "Ready")
       /\ (Phase' # Phase =>
              <<Phase, Phase'>> \in {<<"Uninitialized", "Loading">>,
                                     <<"Loading", "Ready">>,
                                     <<"Loading", "Unavailable">>})]_vars

C3_Witness == Phase = "Ready" /\ lastOp = [op |-> "keydown", arg |-> "Escape"]

\* C4: at most one instance and one Fuse structure are ever built, the built
\* structure indexes the loaded pages, and no event or search changes
\* searchData or the structure.
C4_IndexBuiltOnceReadOnly ==
    /\ [](/\ nInstances <= 1
          /\ nFuseBuilt <= 1
          /\ (fuse.built => /\ nInstances = 1 /\ nFuseBuilt = 1
                            /\ searchData = EnginePages
                            /\ fuse = NewFuse(EnginePages)))
    /\ [][lastOp'.op \in UserOps => UNCHANGED <<searchData, fuse>>]_vars

C4_Witness == fuse.built /\ matcherCall.called /\ written # {} /\ Len(matcherCall.hits) > 0

\* the (title, url) pairs of a sequence of records
RecordKeys(records) ==
    {[title |-> records[i].title, url |-> records[i].url] : i \in DOMAIN records}

\* C5 (as stated): when the build is finished, the (title, url) pairs of the
\* engine's index are those of the builder's output.
C5_Original == BuildDone => RecordKeys(EnginePages) = RecordKeys(pages)

\* payload p is the no-results message for query q with the suggested queries
IsNoResults(p, q) ==
    /\ p.kind = "empty"
    /\ Contains(p.message, "No results found")
    /\ Contains(p.message, "\"" \o q \o "\"")
    /\ Contains(p.suggestion, "Try searching for")
    /\ p.count = ""
    /\ p.items = <<>>

\* C6: when the matcher returns nothing, the container that is rendered holds
\* the no-results message with the literal query and the suggestions, the
\* dropdown is made visible, and an existing dropdown is never left unwritten.
C6_NoResultsMessage ==
    (matcherCall.called /\ matcherCall.hits = <<>>) =>
        /\ (written = {} => ~searchResultsRef)
        /\ ("search-results" \in written =>
                IsNoResults(html, matcherCall.query) /\ display = "block")
        /\ ("search-results-page" \in written =>
                IsNoResults(pageHtml, matcherCall.query))

C6_Witness ==
    /\ matcherCall.called /\ matcherCall.hits = <<>>
    /\ "search-results" \in written /\ lastOp.op = "input"

\* C7 (as stated): the count header reads "1 result for "q"" for one result
\* and "n results for "q"" for more.
C7_Original ==
    (matcherCall.called /\ Len(matcherCall.hits) >= 1 /\ "search-results" \in written) =>
        html.count = ToString(Len(matcherCall.hits))
                        \o (IF Len(matcherCall.hits) = 1 THEN " result" ELSE " results")
                        \o " for \"" \o matcherCall.query \o "\""

\* q occurs in c at 0-based position i, ignoring case
MatchAt(c, q, i) ==
    /\ i + Len(q) <= Len(c)
    /\ toLowerCase(SubSeq(c, i + 1, i + Len(q))) = toLowerCase(q)

FirstMatchAt(c, q, i) == MatchAt(c, q, i) /\ \A j \in 0..(i - 1) : ~MatchAt(c, q, j)

NoMatch(c, q) == \A i \in 0..Len(c) : ~MatchAt(c, q, i)

\* C8: with the first occurrence at i the summary is the window
\* content[max(0,i-40) .. min(len,i+|q|+40)] of the original content, with a
\* leading "..." iff the window starts after 0 and a trailing "..." iff it
\* ends before the end; it contains the matched text.
C8_SummaryWindow ==
    sumOut.done =>
        \A i \in 0..Len(sumContent) :
            FirstMatchAt(sumContent, sumQuery, i) =>
                LET lo == Max(0, i - SnippetPad)
                    hi == Min(Len(sumContent), i + Len(sumQuery) + SnippetPad)
                IN  /\ sumOut.value =
                          (IF lo > 0 THEN "..." ELSE "")
                              \o SubSeq(sumContent, lo + 1, hi)
                              \o (IF hi < Len(sumContent) THEN "..." ELSE "")
                    /\ Contains(sumOut.value, SubSeq(sumContent, i + 1, i + Len(sumQuery)))
                    /\ Len(sumOut.value) <= Len(sumQuery) + 2 * SnippetPad + 6

C8_Witness ==
    /\ sumOut.done
    /\ Len(sumQuery) = 2
    /\ \E i \in 0..Len(sumContent) :
          /\ FirstMatchAt(sumContent, sumQuery, i)
          /\ i > SnippetPad
          /\ i + Len(sumQuery) + SnippetPad < Len(sumContent)
          /\ toLowerCase(sumContent) # sumContent

\* C9: when the query occurs nowhere in the content, the summary is the
\* first 120 characters of the content followed by "...", whatever the length.
C9_FallbackPrefix ==
    (sumOut.done /\ NoMatch(sumContent, sumQuery)) =>
        sumOut.value = SubSeq(sumContent, 1, Min(FallbackLen, Len(sumContent))) \o "..."

C9_Witness ==
    /\ sumOut.done /\ NoMatch(sumContent, sumQuery)
    /\ Len(sumContent) < FallbackLen /\ Len(sumContent) > 0

\* C10 (as stated): when the query occurs nowhere in the content, the summary
\* is the record's summary, the 200-character prefix the builder derives.
C10_Original ==
    (sumOut.done /\ NoMatch(sumContent, sumQuery)) =>
        sumOut.value = SummaryOf(sumContent)

\* C10 (amended): the fallback is the 120-character prefix plus ellipsis; it
\* equals the builder's summary of that content exactly when the content has
\* at most 120 characters.
C10_FallbackIsNotSummary ==
    (sumOut.done /\ NoMatch(sumContent, sumQuery)) =>
        /\ Len(sumOut.value) <= FallbackLen + 3
        /\ (sumOut.value = SummaryOf(sumContent)) <=> (Len(sumContent) <= FallbackLen)

C10_Witness ==
    /\ sumOut.done /\ NoMatch(sumContent, sumQuery)
    /\ Len(sumContent) > FallbackLen
    /\ sumOut.value # SummaryOf(sumContent)

\* payload p lists exactly the records the matcher returned, in its order
ListsHits(p, hits) ==
    /\ Len(p.items) = Len(hits)
    /\ \A i \in 1..Len(hits) :
          /\ p.items[i].title = EnginePages[hits[i]].title
          /\ p.items[i].href = EnginePages[hits[i]].url

\* C11: performSearch neither reorders nor filters what the matcher returns:
\* the container it renders lists exactly the matcher's records, one item per
\* record, in the matcher's (best match first) order.
C11_MatcherOrderKept ==
    matcherCall.called =>
        /\ ("search-results" \in written => ListsHits(html, matcherCall.hits))
        /\ ("search-results-page" \in written => ListsHits(pageHtml, matcherCall.hits))

C11_Witness ==
    /\ matcherCall.called /\ matcherCall.hits = <<5, 2>>
    /\ "search-results" \in written
    /\ html.items[1].title = "Token Validation Module"

\* C13: a search that repeats the search of the previous step (same query,
\* same matcher answer, same container) leaves the rendered payload and the
\* visibility exactly as the first one left them.
C13_SearchIdempotent ==
    [][(/\ matcherCall.called
        /\ matcherCall' = matcherCall
        /\ written' = written
        /\ lastOp'.op \in {"input", "submit", "performSearch"})
            => /\ html' = html
               /\ pageHtml' = pageHtml
               /\ display' = display
               /\ UNCHANGED <<searchData, fuse>>]_vars

C13_Witness ==
    /\ lastOp.op = "submit" /\ inputValue = " To "
    /\ matcherCall.called /\ matcherCall.query = "To"
    /\ Len(matcherCall.hits) = 2
    /\ "search-results" \in written /\ display = "block"

\* payload p is the rendering of query q with the matcher's answer hits
RendersQuery(p, q, hits) ==
    IF hits = <<>> THEN IsNoResults(p, q)
    ELSE /\ p.kind = "list"
         /\ Contains(p.count, "for \"" \o q \o "\"")
         /\ ListsHits(p, hits)

\* C14: every handler runs to completion, so after each step the dropdown
\* holds the rendering of the latest search that wrote it: a step that
\* searches leaves its own query's rendering, visible, and any other step
\* leaves the markup as it was.
C14_LatestQueryShown ==
    [][IF matcherCall'.called /\ "search-results" \in written'
       THEN /\ RendersQuery(html', matcherCall'.query, matcherCall'.hits)
            /\ display' = "block"
            /\ (lastOp'.op \in {"input", "submit"} =>
                    matcherCall'.query = trim(inputValue'))
       ELSE html' = html]_vars

C14_Witness ==
    /\ lastOp.op = "input" /\ inputValue = " To "
    /\ matcherCall.called /\ matcherCall.query = "To"
    /\ matcherCall.hits = <<2>>
    /\ "search-results" \in written
    /\ html.kind = "list" /\ Len(html.items) = 1

\* the queries a rendered payload may belong to
PayloadQueries == {trim(v) : v \in InputValues} \cup CallQueries

\* C15 (as stated): once the engine is initialised, the dropdown is hidden
\* (not shown by the engine) or holds the rendering of a query of at least 2
\* trimmed characters; after an input event with a shorter value it is hidden.
C15_Original ==
    (instance = "ready" /\ searchResultsRef) =>
        /\ \/ display # "block"
           \/ \E q \in PayloadQueries, h \in HitLists :
                 /\ Len(trim(q)) >= MinQueryLength
                 /\ html = RenderDropdown(Items(fuse, h), q)
        /\ (lastOp.op = "input" /\ Len(trim(inputValue)) < MinQueryLength =>
                display = "none")

\* the elements of a set of positions in increasing order
RECURSIVE Ascending(_)
Ascending(S) ==
    IF S = {} THEN <<>> ELSE <<Least(S)>> \o Ascending(S \ {Least(S)})

\* manifest entries visited so far whose file exists and can be read
ReadableEntries == {i \in DOMAIN files : files[i].exists /\ files[i].readable}

\* manifest entries visited so far whose file exists, can be read and parses
ParsedEntries == {i \in ReadableEntries : files[i].parses}

\* pages holds one record per entry of S, in manifest order, with the
\* entry's (prefixed) URL and the front-matter title or else the manifest's
RecordsAreEntries(S) ==
    /\ Len(pages) = Cardinality(S)
    /\ \A k \in DOMAIN pages :
          LET i == Ascending(S)[k]
          IN  /\ pages[k].url = prefixUrl(pageFiles[i].url)
              /\ pages[k].title =
                    IF files[i].title # "" THEN files[i].title ELSE pageFiles[i].title

\* C16 (as stated): the output is the subsequence of the manifest entries
\* whose file exists and is readable, and has as many records as there are
\* readable entries.
C16_Original == BuildDone => RecordsAreEntries(ReadableEntries)

\* C16 (amended): at every point of the loop the output is the subsequence,
\* in manifest order, of the visited entries whose file exists, is readable
\* and parses; every entry is visited whatever the earlier files were.
C16_ParsedSubsequence ==
    /\ Len(files) = cursor - 1
    /\ cursor <= Len(pageFiles) + 1
    /\ RecordsAreEntries(ParsedEntries)

C16_Witness ==
    /\ BuildDone
    /\ ~files[2].exists
    /\ files[4].exists /\ ~files[4].readable
    /\ files[8] = UsualFile
    /\ Len(pages) = Len(pageFiles) - 2

\* entry i was visited and its file is readable with malformed front matter
Malformed(i) ==
    i \in DOMAIN files /\ files[i].exists /\ files[i].readable /\ ~files[i].parses

HasRecord(i) == \E k \in DOMAIN pages : pages[k].url = prefixUrl(pageFiles[i].url)

\* C17 (as stated): an entry whose front matter is malformed still has a
\* record, titled with the manifest's default title.
C17_Original ==
    \A i \in DOMAIN files :
        Malformed(i) =>
            \E k \in DOMAIN pages :
                /\ pages[k].url = prefixUrl(pageFiles[i].url)
                /\ pages[k].title = pageFiles[i].title

\* C17 (amended): an entry whose front matter is malformed gets no record;
\* the loop goes on, and every later entry whose file parses has its record.
C17_MalformedSkipped ==
    \A i \in DOMAIN files :
        Malformed(i) =>
            /\ ~HasRecord(i)
            /\ cursor > i
            /\ \A j \in DOMAIN files : (j > i /\ files[j].parses) => HasRecord(j)

C17_Witness ==
    /\ BuildDone
    /\ Malformed(3)
    /\ files[4] = UsualFile
    /\ Len(pages) = Len(pageFiles) - 1
    /\ pages[3].title = "Front Matter Title"

\* C18: under every path prefix the records' urls are pairwise distinct, as
\* the manifest's are.
C18_UrlsDistinct ==
    /\ \A i, j \in DOMAIN pages : i # j => pages[i].url # pages[j].url
    /\ \A i, j \in DOMAIN pageFiles : i # j => pageFiles[i].url # pageFiles[j].url

C18_Witness ==
    /\ BuildDone /\ Len(pages) = Len(pageFiles)
    /\ pathPrefix = "/sg-identity-techdocs/"

\* C19: with ELEVENTY_PATH_PREFIX unset, empty or "/" a record's url is the
\* manifest's; otherwise it is the prefix (less its trailing slash, if it
\* has one) followed by the manifest's url: one slash at the join, no "//".
C19_PrefixJoin ==
    \A k \in DOMAIN pages :
        LET u == pageFiles[Ascending(ParsedEntries)[k]].url
            n == IF At(envPrefix, Len(envPrefix)) = "/"
                 THEN Len(envPrefix) - 1 ELSE Len(envPrefix)
        IN  IF envPrefix \in {"", "/"} THEN pages[k].url = u
            ELSE /\ Len(pages[k].url) = n + Len(u)
                 /\ SubSeq(pages[k].url, 1, n) = SubSeq(envPrefix, 1, n)
                 /\ SubSeq(pages[k].url, n + 1, n + Len(u)) = u
                 /\ At(pages[k].url, n) # "/"
                 /\ At(pages[k].url, n + 1) = "/"
                 /\ ~Contains(pages[k].url, "//")

C19_Witness ==
    /\ envPrefix = "/sg-identity-techdocs/"
    /\ Len(pages) >= 2
    /\ pages[1].url = "/sg-identity-techdocs/"
    /\ pages[2].url = "/sg-identity-techdocs/getting-started/"

\* s holds no uppercase letter
LowerOnly(s) ==
    /\ \A i \in 1..Len(s) : At(s, i) \notin DOMAIN UpperToLower
    /\ toLowerCase(s) = s

\* C20: whatever the body, the record's content and keywords and the content
\* of each of its sections hold no uppercase character.
C20_LowercaseFields ==
    record.done =>
        /\ LowerOnly(record.value.content)
        /\ LowerOnly(record.value.keywords)
        /\ \A i \in DOMAIN record.value.sections :
              LowerOnly(record.value.sections[i].content)

C20_Witness ==
    /\ record.done
    /\ Contains(srcBody, "## Getting Started\nPlain Text")
    /\ record.value.keywords = "getting started"
    /\ Len(record.value.sections) = 1
    /\ record.value.sections[1].content = "plain text"
    /\ Contains(record.value.content, "plain text")

(***************************************************************************)
(* What markdown takes for code in a body: the lines of a fenced block (a  *)
(* fence of three or more backquotes or tildes, closed by a line of the    *)
(* same character or by the end of the body) and, outside the blocks, the  *)
(* spans between two runs of backquotes of the same length.                *)
(***************************************************************************)
FenceRun(l) == Max(RunLen(l, 1, {BQ}), RunLen(l, 1, {"~"}))
IsFenceLine(l) == FenceRun(l) >= 3

\* indices of the lines inside a fenced block, from line k on; c and n are
\* the character and length of the fence that is open ("" and 0: none)
RECURSIVE FencedLines(_, _, _, _)
FencedLines(lines, k, c, n) ==
    IF k > Len(lines) THEN {}
    ELSE IF c = ""
         THEN IF IsFenceLine(lines[k])
              THEN FencedLines(lines, k + 1, At(lines[k], 1), FenceRun(lines[k]))
              ELSE FencedLines(lines, k + 1, "", 0)
    ELSE IF RunLen(lines[k], 1, {c}) = Len(lines[k]) /\ Len(lines[k]) >= n
         THEN FencedLines(lines, k + 1, "", 0)
    ELSE {k} \cup FencedLines(lines, k + 1, c, n)

\* position of the run of backquotes that closes the span opened at j, 0 if none
SpanClose(l, j) ==
    Least({p \in (j + RunLen(l, j, {BQ}))..Len(l) :
              /\ At(l, p) = BQ /\ At(l, p - 1) # BQ
              /\ RunLen(l, p, {BQ}) = RunLen(l, j, {BQ})})

\* the texts of the code spans of line l, from position i on
RECURSIVE SpanTexts(_, _)
SpanTexts(l, i) ==
    LET j == FindFrom(l, BQ, i)
        n == RunLen(l, j, {BQ})
    IN  IF j = 0 THEN {}
        ELSE IF SpanClose(l, j) = 0 THEN SpanTexts(l, j + n)
        ELSE {SubSeq(l, j + n, SpanClose(l, j) - 1)} \cup SpanTexts(l, SpanClose(l, j) + n)

\* line l without its code spans, from position i on
RECURSIVE CutSpans(_, _)
CutSpans(l, i) ==
    LET j == FindFrom(l, BQ, i)
        n == RunLen(l, j, {BQ})
    IN  IF j = 0 THEN SubSeq(l, i, Len(l))
        ELSE IF SpanClose(l, j) = 0 THEN SubSeq(l, i, j + n - 1) \o CutSpans(l, j + n)
        ELSE SubSeq(l, i, j - 1) \o CutSpans(l, SpanClose(l, j) + n)

\* the lines of a body that are neither in a fenced block nor fences
ProseLines(lines) ==
    {k \in DOMAIN lines : k \notin FencedLines(lines, 1, "", 0) /\ ~IsFenceLine(lines[k])}

\* the code texts of a body
CodeTexts(body) ==
    LET lines == splitLines(body, 1)
    IN  {lines[k] : k \in FencedLines(lines, 1, "", 0)}
            \cup UNION {SpanTexts(lines[k], 1) : k \in ProseLines(lines)}

\* the text t, lowercased and trimmed, occurs in the prose of the body
InProse(body, t) ==
    LET lines == splitLines(body, 1)
    IN  \E k \in ProseLines(lines) : Contains(toLowerCase(CutSpans(lines[k], 1)), t)

\* s holds no '<', one or more characters other than '>', '>'
NoTag(s) ==
    \A i \in 1..Len(s) :
        ~(At(s, i) = "<" /\ At(s, i + 1) \notin {"", ">"} /\ FindFrom(s, ">", i + 2) # 0)

NoMarker(s) == \A i \in 1..Len(s) : At(s, i) \notin {"#", "*", "_", "~"}

\* no code text of the body that is absent from its prose is left in s
NoCodeText(body, s) ==
    \A t \in CodeTexts(body) :
        LET w == toLowerCase(trim(t))
        IN  (w # "" /\ ~InProse(body, w)) => ~Contains(s, w)

\* C21 (as stated): the normalized content holds no HTML tag or comment, no
\* text of a fenced code block or of an inline code span, and none of the
\* markers # * _ ~.
C21_Original ==
    record.done =>
        /\ NoTag(record.value.content)
        /\ NoMarker(record.value.content)
        /\ NoCodeText(srcBody, record.value.content)

\* C22 (as stated): within the sections of one document the ids are pairwise
\* distinct.
C22_Original ==
    record.done =>
        \A i, j \in DOMAIN record.value.sections :
            i # j => record.value.sections[i].id # record.value.sections[j].id

\* the lines that are headings of level 2 to 4
HeadingLines(lines) == {k \in DOMAIN lines : headingMatch(lines[k]).matched}

\* the first line of H after line b, or the line after the last
NextHeading(lines, H, b) ==
    IF {h \in H : h > b} = {} THEN Len(lines) + 1 ELSE Least({h \in H : h > b})

\* the lines between line b and the next heading, each with its line break
RawBetween(lines, H, b) ==
    IF NextHeading(lines, H, b) = b + 1 THEN ""
    ELSE join(SubSeq(lines, b + 1, NextHeading(lines, H, b) - 1), "\n") \o "\n"

\* the entry of the heading on line b (b = 0: the lines before the first heading)
EntryOf(lines, H, b) ==
    LET h == IF b = 0 THEN "" ELSE headingMatch(lines[b]).heading
    IN  [heading |-> h, id |-> sectionId(h), content |-> cleanContent(RawBetween(lines, H, b))]

\* the entries of the lines of S, in document order
EntriesOf(lines, H, S) ==
    LET order == Ascending(S)
    IN  [i \in 1..Cardinality(S) |-> EntryOf(lines, H, order[i])]

\* C23 (as stated): sections has exactly one entry per heading of level 2 to
\* 4, in document order, with the normalized lines up to the next heading as
\* content; no heading is dropped and no entry is without a heading.
C23_Original ==
    record.done =>
        LET lines == splitLines(srcBody, 1)
            H == HeadingLines(lines)
        IN  record.value.sections = EntriesOf(lines, H, H)

\* C23 (amended): sections has, in document order, one entry per heading
\* line that has at least one line under it before the next heading, and
\* before them one entry with empty heading and id when the body does not
\* start with a heading; a heading directly followed by a heading, or
\* ending the body, has no entry.
C23_SectionsWithContent ==
    record.done =>
        LET lines == splitLines(srcBody, 1)
            H == HeadingLines(lines)
        IN  record.value.sections =
                EntriesOf(lines, H, {b \in {0} \cup H : NextHeading(lines, H, b) > b + 1})

C23_Witness ==
    /\ record.done
    /\ srcBody = "Plain Text\n## Getting Started\n### API & Keys"
    /\ Len(record.value.sections) = 1
    /\ record.value.sections[1].heading = ""
    /\ record.value.sections[1].content = "plain text"

\* s from position i on, without the characters outside cls
RECURSIVE Keep(_, _, _)
Keep(s, i, cls) ==
    LET j == Least({k \in i..Len(s) : At(s, k) \notin cls})
    IN  IF j = 0 THEN SubSeq(s, i, Len(s))
        ELSE SubSeq(s, i, j - 1) \o Keep(s, j + 1, cls)

WordChars == LowerLetters \cup DOMAIN UpperToLower \cup Digits \cup {"_"}

\* the shape every id has: no white space, no hyphen at either end
SlugShaped(id) ==
    /\ \A i \in 1..Len(id) : At(id, i) \notin White
    /\ At(id, 1) # "-" /\ At(id, Len(id)) # "-"

\* C24 (as stated): the id is the lowercased heading with every character
\* that is neither a word character nor white space deleted, every run of
\* white space turned into one hyphen and the hyphens at both ends trimmed.
C24_Original ==
    record.done =>
        \A i \in DOMAIN record.value.sections :
            LET s == record.value.sections[i]
            IN  /\ s.id = trimDashes(spacesToDash(
                              Keep(toLowerCase(s.heading), 1, WordChars \cup White), 1))
                /\ SlugShaped(s.id)

\* C24 (amended): as stated, except that hyphens of the heading are kept
\* like word characters; the id is a function of the heading, has no white
\* space and no hyphen at either end, and keeps the heading's word
\* characters in order ("PKCE Implementation" gives "pkce-implementation").
C24_SlugKeepsHyphens ==
    record.done =>
        \A i \in DOMAIN record.value.sections :
            LET s == record.value.sections[i]
            IN  /\ s.id = trimDashes(spacesToDash(
                              Keep(toLowerCase(s.heading), 1, WordChars \cup White \cup {"-"}), 1))
                /\ s.id = sectionId(s.heading)
                /\ SlugShaped(s.id)
                /\ \A k \in 1..Len(s.id) : At(s.id, k) \in WordChars \cup {"-"}
                /\ Keep(s.id, 1, WordChars) = Keep(toLowerCase(s.heading), 1, WordChars)
                /\ (s.heading = "PKCE Implementation" => s.id = "pkce-implementation")

C24_Witness ==
    /\ record.done
    /\ Len(record.value.sections) = 2
    /\ record.value.sections[1].heading = "PKCE Implementation"
    /\ record.value.sections[1].id = "pkce-implementation"
    /\ record.value.sections[2].heading = "Sign-in - Set_Up"
    /\ record.value.sections[2].id = "sign-in---set_up"

\* C25: summary is the first 200 characters of content (all of it when it is
\* shorter) followed by "...", so its length is min(|content|, 200) + 3.
C25_SummaryPrefix ==
    record.done =>
        LET c == record.value.content
            n == Min(Len(c), SummaryLen)
        IN  /\ record.value.summary = SubSeq(c, 1, n) \o "..."
            /\ Len(record.value.summary) = n + 3

C25_Witness ==
    /\ record.done
    /\ Len(record.value.content) \in 1..(SummaryLen - 1)
    /\ record.value.summary = record.value.content \o "..."

\* content longer than 200 characters, cut with a whole number of characters
C25_WitnessCut ==
    /\ record.done
    /\ Len(record.value.content) > SummaryLen
    /\ Len(record.value.summary) = SummaryLen + 3

\* C26 (as stated): the query handed to the matcher by an input or submit
\* event is the raw value of the search box, and a raw value of at least 2
\* characters is searched.
C26_Original ==
    (lastOp.op \in {"input", "submit"} /\ lastOp.op \in bound) =>
        /\ (matcherCall.called => matcherCall.query = lastOp.arg)
        /\ (Len(lastOp.arg) >= MinQueryLength => matcherCall.called)

\* q is v without its leading and trailing whitespace, otherwise unchanged
IsTrimOf(q, v) ==
    \E i \in 1..(Len(v) + 1) :
        /\ \A k \in 1..(i - 1) : IsSpace(At(v, k))
        /\ \A k \in (i + Len(q))..Len(v) : IsSpace(At(v, k))
        /\ i + Len(q) - 1 <= Len(v)
        /\ q = SubSeq(v, i, i + Len(q) - 1)
        /\ (q # "" => ~IsSpace(At(q, 1)) /\ ~IsSpace(At(q, Len(q))))

\* payload p echoes query q and cuts every summary window with q
EchoesQuery(p, q, results) ==
    /\ p.kind = "empty" => Contains(p.message, "\"" \o q \o "\"")
    /\ p.kind = "list" =>
          /\ Contains(p.count, "for \"" \o q \o "\"")
          /\ \A i \in DOMAIN p.items :
                p.items[i].summary = getSearchSummary(results[i], q)

\* C26: the query of an input or submit event is the value of the search box
\* with leading and trailing whitespace removed and nothing else changed; the
\* 2-character minimum of the two listeners is applied to that trimmed
\* string, and the same string reaches the matcher, the summary windows and
\* the rendered payload.  A direct performSearch call passes its argument on
\* unchanged.
C26_QueryIsTrimmedInput ==
    /\ (lastOp.op \in {"input", "submit"} /\ lastOp.op \in bound) =>
          \E n \in 0..Len(lastOp.arg) :
             \E q \in {SubSeq(lastOp.arg, i, i + n - 1) : i \in 1..(Len(lastOp.arg) + 1 - n)} :
                /\ IsTrimOf(q, lastOp.arg)
                /\ matcherCall.called <=> Len(q) >= MinQueryLength
                /\ matcherCall.called =>
                      /\ matcherCall.query = q
                      /\ "search-results" \in written =>
                            EchoesQuery(html, q, Items(fuse, matcherCall.hits))
    /\ (lastOp.op = "performSearch" /\ matcherCall.called) =>
          /\ matcherCall.query = lastOp.arg
          /\ "search-results" \in written =>
                EchoesQuery(html, lastOp.arg, Items(fuse, matcherCall.hits))
          /\ "search-results-page" \in written =>
                EchoesQuery(pageHtml, lastOp.arg, Items(fuse, matcherCall.hits))

C26_Witness ==
    /\ lastOp = [op |-> "input", arg |-> " To "]
    /\ matcherCall.called /\ matcherCall.query = "To"
    /\ matcherCall.hits = <<5>>
    /\ "search-results" \in written
    /\ Contains(html.count, "for \"To\"")

\* C27 (as stated): the id stored for a section is the anchor id the site's
\* slugify gives its heading.
C27_Original ==
    record.done =>
        \A i \in DOMAIN record.value.sections :
            record.value.sections[i].heading # "" =>
                record.value.sections[i].id = slugify(record.value.sections[i].heading)

\* C28: the matcher is queried only by a Ready engine.  Listeners exist only
\* once the pages are loaded and the Fuse structure is built, and an input,
\* submit, click or keydown event or a performSearch call that arrives while
\* the engine is Uninitialized or Loading searches nothing, renders nothing
\* and throws nothing.
C28_SearchOnlyWhenReady ==
    /\ matcherCall.called => Phase = "Ready"
    /\ bound # {} => (Phase = "Ready" /\ searchData = EnginePages /\ fuse = NewFuse(EnginePages))
    /\ (lastOp.op \in UserOps /\ Phase \in {"Uninitialized", "Loading"}) =>
          /\ ~matcherCall.called
          /\ written = {}
          /\ ~threw
          /\ html = Blank /\ pageHtml = Blank
          /\ display # "block"

C28_Witness ==
    /\ Phase = "Loading" /\ instance = "awaitLoad"
    /\ lastOp.op = "performSearch" /\ hasPage
    /\ inputValue = " To "
    /\ ~matcherCall.called /\ written = {}

\* the step is an Escape keydown in the search box or a click outside the
\* search header and the results panel, handled by a bound listener
HideStep ==
    /\ lastOp'.op \in bound
    /\ \/ lastOp' = [op |-> "keydown", arg |-> "Escape"]
       \/ lastOp' = [op |-> "click", arg |-> "outside"]

\* hiding touches nothing but the container's visibility
HideFrame ==
    /\ searchResultsRef => display' = "none"
    /\ ~searchResultsRef => display' = display
    /\ UNCHANGED <<html, pageHtml, inputValue, searchData, fuse>>

\* C29 (as stated): an Escape keydown or an outside click hides the container
\* and changes nothing else, and a hidden container becomes visible only by
\* an input or submit event carrying at least 2 characters.
C29_Original ==
    [][/\ HideStep => HideFrame
       /\ (display = "none" /\ display' # "none") =>
             /\ lastOp'.op \in {"input", "submit"}
             /\ Len(lastOp'.arg) >= MinQueryLength]_vars

\* C29: an Escape keydown or an outside click hides the container and leaves
\* its markup, the input value and the index as they were; a hidden container
\* becomes visible only in a step that searches and renders the dropdown: an
\* input or submit event whose trimmed value has at least 2 characters, or a
\* direct performSearch call.
C29_HiddenUntilSearch ==
    [][/\ HideStep => HideFrame
       /\ (display = "none" /\ display' # "none") =>
             /\ display' = "block"
             /\ matcherCall'.called /\ "search-results" \in written'
             /\ lastOp'.op \in {"input", "submit", "performSearch"}
             /\ lastOp'.op \in {"input", "submit"} =>
                   Len(trim(lastOp'.arg)) >= MinQueryLength]_vars

C29_Witness ==
    /\ lastOp = [op |-> "keydown", arg |-> "Escape"]
    /\ display = "none"
    /\ html.kind = "list" /\ Len(html.items) = 2
    /\ inputValue = " To "

\* C30: displayResults and displayResultsPage render the same payload for the
\* same results and query: the container a search writes holds that one
\* payload whichever of the two wrote it; writing the page container leaves
\* the dropdown and its visibility alone, writing the dropdown shows it.
C30_SamePayload ==
    /\ [](matcherCall.called =>
            LET results == Items(fuse, matcherCall.hits)
                dropdown == RenderDropdown(results, matcherCall.query)
                page == RenderPage(results, matcherCall.query)
            IN  /\ dropdown = page
                /\ "search-results" \in written => (html = page /\ display = "block")
                /\ "search-results-page" \in written => pageHtml = dropdown)
    /\ [][/\ "search-results" \in written' => pageHtml' = pageHtml
          /\ "search-results-page" \in written' => (html' = html /\ display' = display)]_vars

C30_Witness ==
    /\ lastOp = [op |-> "performSearch", arg |-> "To"]
    /\ written = {"search-results-page"}
    /\ pageHtml.kind = "list" /\ Len(pageHtml.items) = 2
    /\ html = pageHtml /\ display = "block"

====
